---- MODULE Spec2Model ----
(***************************************************************************)
(* Task repository of the React task manager (contexts/TaskContext.js):    *)
(* the ordered collection of tasks held by TaskProvider and the five       *)
(* mutations addTask, toggleTask, updateTask, deleteTask, clearCompleted.  *)
(*                                                                         *)
(* JavaScript values are represented as follows.                           *)
(*   - a string with structure is a tuple: a title or description is the   *)
(*     tuple of its characters, '' is <<>>, the 'YYYY-MM-DD' text of day d *)
(*     is <<"D", d>>, the ISO text of the instant t is <<"T", t>>;         *)
(*   - null is NULL; an absent (undefined) property of an object is a      *)
(*     field missing from the record's DOMAIN;                             *)
(*   - a priority is a plain string, '' being the empty one;               *)
(*   - Date.now() is the variable now (milliseconds);                      *)
(*   - Math.random() is r / RandLevels for a nondeterministic r; the       *)
(*     double addition Date.now() + Math.random() keeps only a few bits of *)
(*     the fraction and rounds to nearest, so r ranges over 0..RandLevels  *)
(*     and r = RandLevels is a fraction rounded up to the next integer.    *)
(***************************************************************************)
EXTENDS Integers, Sequences, FiniteSets, TLC

VARIABLES tasks, now, prev, op,
          tz, result,
          formData, errors, isSubmitting, waiting,
          localStorage, quotaExceeded,
          isDeleting, deleting,
          isLoading, timer, mounted

\* the browser's time zone and the value the last derived computation gave
envVars == <<tz, result>>

\* state of TaskForm, and the submissions waiting in their 300 ms delay
formVars == <<formData, errors, isSubmitting, waiting>>

\* the item stored under the key 'tasks', and whether setItem throws
storeVars == <<localStorage, quotaExceeded>>

\* the ids of the TaskItems showing as deleting, and the deleteTask calls
\* waiting in their 300 ms delay
itemVars == <<isDeleting, deleting>>

\* state of the withLoader wrapper: its flag, its timer, and whether the
\* wrapper is mounted
gateVars == <<isLoading, timer, mounted>>

uiVars == <<itemVars, gateVars>>

vars == <<tasks, now, prev, op, envVars, formVars, storeVars, uiVars>>

\* ---------------------------------------------------------------- bounds
MaxTasks == 2
MaxNow == 1
RandLevels == 1
\* clock units in a day, the largest time zone offset in clock units, the
\* last calendar day, and the numbers of submissions and of deletions
\* waiting in their delays at once
DayLen == 4
MaxTz == 1
MaxDay == 5
MaxWaiting == 2
MaxDeleting == 2

\* ---------------------------------------------------------------- values
NULL == <<"null">>

\* the Date object itself where its ISO text is meant
toISOString_dateObject(t) == <<"Date", t>>

toISOString(t) == <<"T", t>>

RECURSIVE trimStart(_)
trimStart(s) ==
  IF s = <<>> THEN s
  ELSE IF Head(s) = " " THEN trimStart(Tail(s)) ELSE s

RECURSIVE trimEnd(_)
trimEnd(s) ==
  IF s = <<>> THEN s
  ELSE IF s[Len(s)] = " " THEN trimEnd(SubSeq(s, 1, Len(s) - 1)) ELSE s

trim(s) == trimEnd(trimStart(s))

\* the ids Date.now() + Math.random() can take within the bounds
IdSpace == 0 .. ((MaxNow + 1) * RandLevels)

\* drafts handed to addTask; every text has a non-blank character
Drafts ==
  { [text |-> <<"a">>],
    [text |-> <<" ", "a">>, description |-> <<" ">>, priority |-> "",
     dueDate |-> <<>>],
    [text |-> <<" ", "b", " ">>, description |-> <<" ", "c">>,
     priority |-> "high", dueDate |-> <<"D", 1>>],
    [text |-> <<"a">>, priority |-> "urgent"] }

\* patches handed to updateTask
Patches ==
  { << >>,
    [text |-> <<" ">>, priority |-> "low"],
    [completed |-> TRUE] }
  \cup { [id |-> 0] }

\* ------------------------------------------------------------ operations
\* newTask with the draft's text and description stored as typed
newTask_untrimmed(taskData, t, r) ==
  [ id          |-> t * RandLevels + r,
    text        |-> taskData.text,
    description |-> IF "description" \in DOMAIN taskData
                       /\ taskData.description # NULL
                       /\ taskData.description # <<>>
                    THEN taskData.description ELSE <<>>,
    priority    |-> IF "priority" \in DOMAIN taskData
                       /\ taskData.priority # ""
                    THEN taskData.priority ELSE "medium",
    dueDate     |-> IF "dueDate" \in DOMAIN taskData
                       /\ taskData.dueDate # <<>>
                    THEN taskData.dueDate ELSE NULL,
    completed   |-> FALSE,
    createdAt   |-> toISOString(t),
    completedAt |-> NULL ]

\* newTask literal of addTask
newTask(taskData, t, r) ==
  [ id          |-> t * RandLevels + r,
    text        |-> trim(taskData.text),
    description |-> IF "description" \in DOMAIN taskData
                       /\ taskData.description # NULL
                       /\ trim(taskData.description) # <<>>
                    THEN trim(taskData.description) ELSE <<>>,
    priority    |-> IF "priority" \in DOMAIN taskData
                       /\ taskData.priority # ""
                    THEN taskData.priority ELSE "medium",
    dueDate     |-> IF "dueDate" \in DOMAIN taskData
                       /\ taskData.dueDate # <<>>
                    THEN taskData.dueDate ELSE NULL,
    completed   |-> FALSE,
    createdAt   |-> toISOString(t),
    completedAt |-> NULL ]

\* prevTasks => [newTask, ...prevTasks]
addTask_prepend(prevTasks, taskData, t, r) ==
  <<newTask(taskData, t, r)>> \o prevTasks

\* prevTasks => [...prevTasks, newTask]
addTask(prevTasks, taskData, t, r) ==
  Append(prevTasks, newTask(taskData, t, r))

\* toggleTask stamping completedAt on every flip, never clearing it
toggleTask_neverClears(prevTasks, id, t) ==
  [ i \in 1 .. Len(prevTasks) |->
      IF prevTasks[i].id = id
      THEN [ prevTasks[i] EXCEPT
               !.completed = ~ prevTasks[i].completed,
               !.completedAt = toISOString(t) ]
      ELSE prevTasks[i] ]

\* toggleTask writing completed: true instead of flipping
toggleTask_setsCompleted(prevTasks, id, t) ==
  [ i \in 1 .. Len(prevTasks) |->
      IF prevTasks[i].id = id
      THEN [ prevTasks[i] EXCEPT
               !.completed = TRUE,
               !.completedAt = toISOString(t) ]
      ELSE prevTasks[i] ]

\* toggleTask that moves the toggled tasks to the end of the collection
toggleTask_movesToEnd(prevTasks, id, t) ==
  LET flipped == [ i \in 1 .. Len(prevTasks) |->
                     [ prevTasks[i] EXCEPT
                         !.completed = ~ prevTasks[i].completed,
                         !.completedAt = IF ~ prevTasks[i].completed
                                         THEN toISOString(t) ELSE NULL ] ]
  IN  SelectSeq(prevTasks, LAMBDA task : task.id # id)
        \o SelectSeq(flipped, LAMBDA task : task.id = id)

\* prevTasks.map(task => task.id === id ? {...flipped} : task)
toggleTask(prevTasks, id, t) ==
  [ i \in 1 .. Len(prevTasks) |->
      IF prevTasks[i].id = id
      THEN [ prevTasks[i] EXCEPT
               !.completed = ~ prevTasks[i].completed,
               !.completedAt = IF ~ prevTasks[i].completed
                               THEN toISOString(t) ELSE NULL ]
      ELSE prevTasks[i] ]

\* updateTask spreading in the other order: { ...updates, ...task }
updateTask_taskWins(prevTasks, id, updates) ==
  [ i \in 1 .. Len(prevTasks) |->
      IF prevTasks[i].id = id THEN prevTasks[i] @@ updates
      ELSE prevTasks[i] ]

\* prevTasks.map(task => task.id === id ? { ...task, ...updates } : task)
updateTask(prevTasks, id, updates) ==
  [ i \in 1 .. Len(prevTasks) |->
      IF prevTasks[i].id = id THEN updates @@ prevTasks[i]
      ELSE prevTasks[i] ]

\* deleteTask by position: splice(findIndex(...), 1), where the index -1 of an
\* id that is not found removes the last task
deleteTask_splice(prevTasks, id) ==
  LET found == { i \in 1 .. Len(prevTasks) : prevTasks[i].id = id }
      at == IF found = {} THEN Len(prevTasks)
            ELSE CHOOSE i \in found : \A j \in found : i <= j
  IN  [ k \in 1 .. (IF Len(prevTasks) = 0 THEN 0 ELSE Len(prevTasks) - 1) |->
          IF k < at THEN prevTasks[k] ELSE prevTasks[k + 1] ]

\* deleteTask with the test inverted: filter(task => task.id === id)
deleteTask_keepsMatching(prevTasks, id) ==
  SelectSeq(prevTasks, LAMBDA task : task.id = id)

\* prevTasks.filter(task => task.id !== id)
deleteTask(prevTasks, id) ==
  SelectSeq(prevTasks, LAMBDA task : task.id # id)

\* clearCompleted with the test inverted: filter(task => task.completed)
clearCompleted_keepsCompleted(prevTasks) ==
  SelectSeq(prevTasks, LAMBDA task : task.completed)

\* prevTasks.filter(task => !task.completed)
clearCompleted(prevTasks) ==
  SelectSeq(prevTasks, LAMBDA task : ~ task.completed)

\* ------------------------------------------------- TaskItem and TaskForm
TitleMax == 100
DescMax == 300

\* a string of n characters c
Rep(c, n) == [ i \in 1 .. n |-> c ]

\* time zone offsets: local time is UTC time plus the offset
TzOffsets == (0 - MaxTz) .. MaxTz

\* the calendar day (local time) of the instant t: getFullYear, getMonth
\* and getDate of a Date
LocalDay(t, z) == (t + z) \div DayLen

\* today.setHours(0, 0, 0, 0): the instant of local midnight before t
startOfLocalDay(t, z) == LocalDay(t, z) * DayLen - z

\* new Date('YYYY-MM-DD'): a date-only text is read as midnight UTC
parseDate(dueDate) == dueDate[2] * DayLen

\* getTodayDate: the local calendar date as 'YYYY-MM-DD'
getTodayDate(t, z) == <<"D", LocalDay(t, z)>>

\* Math.ceil(a / b) for b > 0
ceilDiv(a, b) == 0 - ((0 - a) \div b)

abs(n) == IF n < 0 THEN 0 - n ELSE n

\* the null result of dueDateStatus
NoStatus == [status |-> "null"]

\* dueDateStatus of TaskItem; labels are kept as their parts
dueDateStatus(task, t, z) ==
  IF task.dueDate \in {NULL, <<>>} THEN NoStatus
  ELSE
    LET dueDate == parseDate(task.dueDate)
        diffTime == dueDate - t
        diffDays == ceilDiv(diffTime, DayLen)
    IN  IF diffDays < 0
        THEN [ status |-> "overdue",
               label |-> << "Overdue by", abs(diffDays),
                            IF abs(diffDays) # 1 THEN "days" ELSE "day" >> ]
        ELSE IF diffDays = 0
        THEN [ status |-> "today", label |-> << "Due today" >> ]
        ELSE IF diffDays <= 3
        THEN [ status |-> "soon",
               label |-> << "Due in", diffDays,
                            IF diffDays # 1 THEN "days" ELSE "day" >> ]
        ELSE [ status |-> "later",
               label |-> << "Due", LocalDay(dueDate, z) >> ]

\* initial and reset value of formData
EmptyForm ==
  [text |-> <<>>, description |-> <<>>, priority |-> "medium",
   dueDate |-> <<>>]

\* a key the errors object does not have
Absent == "undefined"

\* the errors object {}
NoErrors ==
  [text |-> Absent, description |-> Absent, dueDate |-> Absent,
   submit |-> Absent]

\* validateForm testing !formData.text, without the trim
validateForm_noTrim(fd, t, z) ==
  [ text        |-> IF fd.text = <<>>
                    THEN "Task title is required"
                    ELSE IF Len(fd.text) > TitleMax
                    THEN "Title cannot exceed 100 characters"
                    ELSE Absent,
    description |-> IF fd.description # <<>> /\ Len(fd.description) > DescMax
                    THEN "Description cannot exceed 300 characters"
                    ELSE Absent,
    dueDate     |-> IF fd.dueDate # <<>>
                       /\ parseDate(fd.dueDate) < startOfLocalDay(t, z)
                    THEN "Due date cannot be in the past"
                    ELSE Absent,
    submit      |-> Absent ]

\* newErrors of validateForm
validateForm(fd, t, z) ==
  [ text        |-> IF trim(fd.text) = <<>>
                    THEN "Task title is required"
                    ELSE IF Len(fd.text) > TitleMax
                    THEN "Title cannot exceed 100 characters"
                    ELSE Absent,
    description |-> IF fd.description # <<>> /\ Len(fd.description) > DescMax
                    THEN "Description cannot exceed 300 characters"
                    ELSE Absent,
    dueDate     |-> IF fd.dueDate # <<>>
                       /\ parseDate(fd.dueDate) < startOfLocalDay(t, z)
                    THEN "Due date cannot be in the past"
                    ELSE Absent,
    submit      |-> Absent ]

\* Object.keys(errors).length === 0
noKeys(errs) == \A k \in DOMAIN errs : errs[k] = Absent

\* the object handleSubmit hands to addTask
submittedDraft(fd) ==
  [ text        |-> trim(fd.text),
    description |-> trim(fd.description),
    priority    |-> fd.priority,
    dueDate     |-> IF fd.dueDate # <<>> THEN fd.dueDate ELSE NULL ]

\* ------------------------------------------------- the stored collection
\* useLocalStorage('tasks', null)
initialTasks_null == NULL

\* TaskProvider: useLocalStorage('tasks', []) -- the default handed to the hook
initialTasks == <<>>

\* getItem finds nothing under the key
NoItem == [kind |-> "null"]

\* the JSON token of the value v of the property f: a number for the id, a
\* literal for a boolean and for null, a quoted string otherwise; a Date
\* object is written as its ISO text
stringifyValue(f, v) ==
  CASE f = "id" -> <<"number", v>>
    [] f = "completed" -> <<"literal", IF v THEN "true" ELSE "false">>
    [] f = "priority" -> <<"string", v>>
    [] OTHER ->
         IF v = NULL THEN <<"literal", "null">>
         ELSE IF Len(v) = 2 /\ v[1] = "Date"
         THEN <<"string", <<"T", v[2]>> >>
         ELSE <<"string", v>>

\* the JSON text of one task: the token of each of its members
stringifyTask(task) ==
  [ f \in DOMAIN task |-> stringifyValue(f, task[f]) ]

\* the JSON text of a collection
JSON_stringify(ts) ==
  [ kind  |-> "string",
    open  |-> "[",
    items |-> [ i \in 1 .. Len(ts) |-> stringifyTask(ts[i]) ],
    close |-> "]" ]

\* a stored text cut off after its first character
CorruptText ==
  [kind |-> "string", open |-> "[", items |-> <<>>, close |-> ""]

\* JSON.parse succeeds on the text
wellFormed(item) == item.open = "[" /\ item.close = "]"

parseValue(token) ==
  CASE token[1] = "number" -> token[2]
    [] token[1] = "string" -> token[2]
    [] token[2] = "true" -> TRUE
    [] token[2] = "false" -> FALSE
    [] OTHER -> NULL

parseTask(text) ==
  [ f \in DOMAIN text |-> parseValue(text[f]) ]

JSON_parse(item) ==
  [ i \in 1 .. Len(item.items) |-> parseTask(item.items[i]) ]

\* read of the store adapter: the stored collection, or the default when
\* nothing is stored or the text does not parse
read(item, initialValue) ==
  IF item = NoItem THEN initialValue
  ELSE IF ~ wellFormed(item) THEN initialValue
  ELSE JSON_parse(item)

\* write of the store adapter: one attempt; a setItem that throws is caught
\* and leaves the stored item as it was
write(item, failing, value) ==
  IF failing THEN item ELSE JSON_stringify(value)

\* TaskForm, the TaskItems and the withLoader wrapper as first rendered
Mounted ==
  /\ result = NoStatus
  /\ formData = EmptyForm
  /\ errors = NoErrors
  /\ isSubmitting = FALSE
  /\ waiting = <<>>
  /\ isDeleting = {}
  /\ deleting = <<>>
  /\ isLoading = TRUE
  /\ timer = TRUE
  /\ mounted = TRUE

\* --------------------------------------------------------------- actions
Init ==
  /\ tasks = <<>>
  /\ now = 0
  /\ prev = <<>>
  /\ op = [name |-> "init"]
  /\ tz = 0
  /\ localStorage = NoItem
  /\ quotaExceeded = FALSE
  /\ Mounted

AddTask ==
  /\ Len(tasks) < MaxTasks
  /\ \E taskData \in Drafts, r \in 0 .. RandLevels :
       /\ tasks' = addTask(tasks, taskData, now, r)
       /\ op' = [name |-> "addTask", taskData |-> taskData]
  /\ prev' = tasks
  /\ localStorage' = write(localStorage, quotaExceeded, tasks')
  /\ UNCHANGED <<now, envVars, formVars, quotaExceeded, uiVars>>

ToggleTask ==
  /\ \E id \in IdSpace :
       /\ tasks' = toggleTask(tasks, id, now)
       /\ op' = [name |-> "toggleTask", id |-> id]
  /\ prev' = tasks
  /\ localStorage' = write(localStorage, quotaExceeded, tasks')
  /\ UNCHANGED <<now, envVars, formVars, quotaExceeded, uiVars>>

UpdateTask ==
  /\ \E id \in IdSpace, updates \in Patches :
       /\ tasks' = updateTask(tasks, id, updates)
       /\ op' = [name |-> "updateTask", id |-> id, updates |-> updates]
  /\ prev' = tasks
  /\ localStorage' = write(localStorage, quotaExceeded, tasks')
  /\ UNCHANGED <<now, envVars, formVars, quotaExceeded, uiVars>>

DeleteTask ==
  /\ \E id \in IdSpace :
       /\ tasks' = deleteTask(tasks, id)
       /\ op' = [name |-> "deleteTask", id |-> id]
  /\ prev' = tasks
  /\ localStorage' = write(localStorage, quotaExceeded, tasks')
  /\ UNCHANGED <<now, envVars, formVars, quotaExceeded, uiVars>>

ClearCompleted ==
  /\ tasks' = clearCompleted(tasks)
  /\ op' = [name |-> "clearCompleted"]
  /\ prev' = tasks
  /\ localStorage' = write(localStorage, quotaExceeded, tasks')
  /\ UNCHANGED <<now, envVars, formVars, quotaExceeded, uiVars>>

\* the wall clock advances between events
Tick ==
  /\ now < MaxNow
  /\ now' = now + 1
  /\ op' = [name |-> "tick"]
  /\ prev' = tasks
  /\ UNCHANGED <<tasks, envVars, formVars, storeVars, uiVars>>

Next ==
  \/ AddTask
  \/ ToggleTask
  \/ UpdateTask
  \/ DeleteTask
  \/ ClearCompleted
  \/ Tick

Spec == Init /\ [][Next]_vars

\* ------------------------------------------------- vocabulary of the claims
Present(ts, id) == \E i \in 1 .. Len(ts) : ts[i].id = id

Blank(s) == \A k \in 1 .. Len(s) : s[k] = " "

\* t is s without its leading and trailing blanks
IsTrimOf(t, s) ==
  /\ \E i, j \in 0 .. Len(s) :
       /\ i + j <= Len(s)
       /\ t = SubSeq(s, i + 1, Len(s) - j)
       /\ Blank(SubSeq(s, 1, i))
       /\ Blank(SubSeq(s, Len(s) - j + 1, Len(s)))
  /\ t # <<>> => (t[1] # " " /\ t[Len(t)] # " ")

\* after is before restricted to the positions satisfying Keep, in order
IsFilterOf(after, before, Keep(_)) ==
  \E f \in [1 .. Len(after) -> 1 .. Len(before)] :
    /\ \A k \in 1 .. Len(after) : after[k] = before[f[k]]
    /\ \A k1, k2 \in 1 .. Len(after) : k1 < k2 => f[k1] < f[k2]
    /\ { f[k] : k \in 1 .. Len(after) }
         = { i \in 1 .. Len(before) : Keep(before[i]) }

CompletedAtMatches(ts) ==
  \A i \in 1 .. Len(ts) : (ts[i].completedAt # NULL) <=> ts[i].completed

\* ---------------------------------------------------------------- claims

\* C1: in every reachable state no two tasks of the collection have the
\* same id, tasks created within the same millisecond included.
C1_UniqueIds ==
  \A i, j \in 1 .. Len(tasks) : i # j => tasks[i].id # tasks[j].id

\* C2: in every reachable state every task has completedAt present
\* (non-null) if and only if its completed flag is true.
C2_CompletedAtIffCompleted == CompletedAtMatches(tasks)

\* C3: an addTask call makes the collection one longer, puts the new task
\* last and leaves every earlier task unchanged at its position.
C3_AddAppendsOne ==
  op.name = "addTask" =>
    /\ Len(tasks) = Len(prev) + 1
    /\ \A i \in 1 .. Len(prev) : tasks[i] = prev[i]
    /\ \E r \in 0 .. RandLevels :
         tasks[Len(tasks)] = newTask(op.taskData, now, r)

C3_Witness ==
  /\ op.name = "addTask"
  /\ Len(prev) >= 1
  /\ tasks[Len(tasks)] # prev[1]

\* C4: the task built by addTask(draft) is pending with completedAt null,
\* its text and description are the draft's trimmed ('' when the
\* description is absent), its priority the draft's or medium when missing,
\* its dueDate the draft's or null when missing or empty.
C4_NewTaskFields ==
  op.name = "addTask" =>
    LET t == tasks[Len(tasks)]
        d == op.taskData
    IN  /\ t.completed = FALSE
        /\ t.completedAt = NULL
        /\ IsTrimOf(t.text, d.text)
        /\ IF "description" \in DOMAIN d
           THEN IsTrimOf(t.description, d.description)
           ELSE t.description = <<>>
        /\ t.priority = IF "priority" \in DOMAIN d /\ d.priority # ""
                        THEN d.priority ELSE "medium"
        /\ t.dueDate = IF "dueDate" \in DOMAIN d /\ d.dueDate # <<>>
                       THEN d.dueDate ELSE NULL

C4_Witness ==
  /\ op.name = "addTask"
  /\ op.taskData.text # tasks[Len(tasks)].text
  /\ "description" \in DOMAIN op.taskData
  /\ op.taskData.description # tasks[Len(tasks)].description
  /\ tasks[Len(tasks)].dueDate # NULL

\* C5: toggleTask(id) with a present id flips completed on the matching
\* task, sets completedAt to the current time when it became completed and
\* to null when it became pending, and changes nothing else: no other
\* field, no other task, not the length, not the order.
C5_ToggleFrame ==
  (op.name = "toggleTask" /\ Present(prev, op.id)) =>
    /\ Len(tasks) = Len(prev)
    /\ \A i \in 1 .. Len(prev) :
         IF prev[i].id = op.id
         THEN /\ tasks[i].completed = ~ prev[i].completed
              /\ tasks[i].completedAt =
                   IF tasks[i].completed THEN toISOString(now) ELSE NULL
              /\ \A f \in DOMAIN prev[i] \ {"completed", "completedAt"} :
                   tasks[i][f] = prev[i][f]
              /\ DOMAIN tasks[i] = DOMAIN prev[i]
         ELSE tasks[i] = prev[i]

C5_Witness ==
  /\ op.name = "toggleTask"
  /\ Len(prev) = 2
  /\ prev[1].id = op.id
  /\ prev[2].id # op.id
  /\ prev[1].completed
  /\ prev[1].completedAt # NULL
  /\ ~ tasks[1].completed

\* C6: toggleTask, updateTask and deleteTask with an id that matches no
\* task leave the collection exactly as it was.
C6_UnknownIdNoOp ==
  (op.name \in {"toggleTask", "updateTask", "deleteTask"}
     /\ ~ Present(prev, op.id)) => tasks = prev

C6_Witness ==
  /\ op.name = "deleteTask"
  /\ Len(prev) = 2
  /\ ~ Present(prev, op.id)

\* C7 (as stated): two toggleTask(id) calls at one clock value leave the
\* whole collection, completedAt included, equal to what it was before.
C7_ToggleTwiceRestores ==
  (op.name = "toggleTask" /\ Present(prev, op.id) /\ CompletedAtMatches(prev))
    => toggleTask(tasks, op.id, now) = prev

\* C7 (amended): two toggleTask(id) calls at one clock value restore the
\* completed flag and leave everything else as it was, except completedAt of
\* the matching task: null again for a task that was pending, the clock
\* value of the calls for a task that was completed.
C7_ToggleTwiceAmended ==
  (op.name = "toggleTask" /\ Present(prev, op.id)) =>
    LET twice == toggleTask(tasks, op.id, now)
    IN  /\ Len(twice) = Len(prev)
        /\ \A i \in 1 .. Len(prev) :
             IF prev[i].id = op.id
             THEN twice[i] =
                    [ prev[i] EXCEPT
                        !.completedAt = IF prev[i].completed
                                        THEN toISOString(now) ELSE NULL ]
             ELSE twice[i] = prev[i]

C7_Witness ==
  /\ op.name = "toggleTask"
  /\ \E i \in 1 .. Len(prev) :
       /\ prev[i].id = op.id
       /\ prev[i].completed
       /\ prev[i].completedAt \notin {NULL, toISOString(now)}
       /\ ~ tasks[i].completed

\* C8: clearCompleted leaves no completed task; what remains is exactly the
\* previously pending tasks, unchanged and in their previous order; with no
\* completed task the collection is unchanged.
C8_ClearCompleted ==
  op.name = "clearCompleted" =>
    /\ \A i \in 1 .. Len(tasks) : ~ tasks[i].completed
    /\ IsFilterOf(tasks, prev, LAMBDA task : ~ task.completed)
    /\ (\A i \in 1 .. Len(prev) : ~ prev[i].completed) => tasks = prev

C8_Witness ==
  /\ op.name = "clearCompleted"
  /\ Len(prev) = 2
  /\ prev[1].completed
  /\ ~ prev[2].completed
  /\ tasks = <<prev[2]>>

\* C9: deleteTask(id) with a present id removes the task with that id and
\* nothing else: the others stay, unchanged and in order, and the length
\* decreases by exactly one.
C9_DeleteRemovesOne ==
  (op.name = "deleteTask" /\ Present(prev, op.id)) =>
    /\ Len(tasks) = Len(prev) - 1
    /\ IsFilterOf(tasks, prev, LAMBDA task : task.id # op.id)

\* C10: updateTask(id, patch) with a present id sets exactly the fields
\* named in the patch on the matching task to the patch values; the other
\* fields, the other tasks, the length and the order are unchanged.
C10_UpdateFrame ==
  (op.name = "updateTask" /\ Present(prev, op.id)) =>
    /\ Len(tasks) = Len(prev)
    /\ \A i \in 1 .. Len(prev) :
         IF prev[i].id = op.id
         THEN /\ DOMAIN tasks[i] = DOMAIN prev[i] \cup DOMAIN op.updates
              /\ \A f \in DOMAIN op.updates : tasks[i][f] = op.updates[f]
              /\ \A f \in DOMAIN prev[i] \ DOMAIN op.updates :
                   tasks[i][f] = prev[i][f]
         ELSE tasks[i] = prev[i]

C10_Witness ==
  /\ op.name = "updateTask"
  /\ Len(prev) = 2
  /\ prev[2].id = op.id
  /\ prev[1].id # op.id
  /\ Cardinality(DOMAIN op.updates) = 2
  /\ tasks[2] # prev[2]

\* ------------------------------------------- a session with stored tasks
\* a collection an earlier session left in storage: three tasks with
\* distinct ids, created in this order
StoredTasks ==
  addTask(
    addTask(
      addTask(<<>>, [text |-> <<"a">>], 0, 0),
      [text |-> <<"b">>, priority |-> "high", dueDate |-> <<"D", 1>>], 0, 1),
    [text |-> <<"a">>, description |-> <<"c">>], 1, 1)

\* TaskProvider mounts with the stored collection, or with [] when nothing
\* is stored
InitStored ==
  /\ \/ tasks = <<>> /\ now = 0 /\ localStorage = NoItem
     \/ /\ tasks = StoredTasks
        /\ now = MaxNow
        /\ localStorage = JSON_stringify(StoredTasks)
  /\ quotaExceeded = FALSE
  /\ prev = tasks
  /\ op = [name |-> "init"]
  /\ tz = 0
  /\ Mounted

SpecStored == InitStored /\ [][Next]_vars

\* ------------------------------------------------ a session on any storage
\* TaskProvider mounts on a storage that holds nothing under the key, a text
\* that does not parse, or the collection of an earlier session, and whose
\* setItem works or throws (quota exceeded, storage unavailable)
InitStore ==
  /\ localStorage \in {NoItem, CorruptText, JSON_stringify(StoredTasks)}
  /\ quotaExceeded \in BOOLEAN
  /\ tasks = read(localStorage, initialTasks)
  /\ now = IF localStorage = JSON_stringify(StoredTasks) THEN MaxNow ELSE 0
  /\ prev = tasks
  /\ op = [name |-> "init"]
  /\ tz = 0
  /\ Mounted

SpecStore == InitStore /\ [][Next]_vars

\* ------------------------------------- the date computations on their own
\* the instants at which a task is rendered or a draft validated
DateInstants == 0 .. (3 * DayLen - 1)

\* the values a date input gives
DueDates == { <<"D", d>> : d \in 0 .. MaxDay }

\* a browser in any time zone, at any instant of the first three days
InitDates ==
  /\ tasks = <<>>
  /\ prev = <<>>
  /\ op = [name |-> "init"]
  /\ now \in DateInstants
  /\ tz \in TzOffsets
  /\ localStorage = NoItem
  /\ quotaExceeded = FALSE
  /\ Mounted

\* TaskItem renders a task: the memoized dueDateStatus is computed
RenderDueDate ==
  /\ \E d \in DueDates \cup {NULL} :
       /\ result' = dueDateStatus([dueDate |-> d], now, tz)
       /\ op' = [name |-> "dueDateStatus", task |-> [dueDate |-> d]]
  /\ UNCHANGED <<tasks, now, prev, tz, formVars, storeVars, uiVars>>

\* validateForm runs on a draft with a title and a due date
ValidateDraft ==
  /\ \E d \in DueDates \cup {<<>>} :
       LET fd == [EmptyForm EXCEPT !.text = <<"a">>, !.dueDate = d]
       IN  /\ result' = validateForm(fd, now, tz)
           /\ op' = [name |-> "validateForm", formData |-> fd]
  /\ UNCHANGED <<tasks, now, prev, tz, formVars, storeVars, uiVars>>

NextDates ==
  \/ RenderDueDate
  \/ ValidateDraft

SpecDates == InitDates /\ [][NextDates]_vars

\* ------------------------------------------------------------- TaskForm
\* the values the form controls are given; the priority select is left at
\* its default
FormValues ==
  [ text        |-> { <<>>, Rep(" ", TitleMax + 1), <<" ", "a">>,
                      Rep("a", TitleMax + 1) },
    description |-> { <<>>, Rep("c", DescMax + 1) },
    priority    |-> { "medium" },
    dueDate     |-> { <<>>, <<"D", 0 - 1>> } ]

\* handleInputChange(field, value)
HandleInputChange ==
  /\ \E field \in DOMAIN FormValues :
       \E value \in FormValues[field] :
         /\ value # formData[field]
         /\ formData' = [formData EXCEPT ![field] = value]
         /\ errors' = IF field \in DOMAIN errors
                         /\ errors[field] \notin {Absent, ""}
                      THEN [errors EXCEPT ![field] = ""]
                      ELSE errors
         /\ op' = [name |-> "handleInputChange", field |-> field]
  /\ prev' = tasks
  /\ UNCHANGED <<tasks, now, envVars, isSubmitting, waiting, storeVars, uiVars>>

\* handleSubmit up to its await: validation, then the 300 ms delay starts
\* with formData captured by the closure
HandleSubmit ==
  LET newErrors == validateForm(formData, now, tz)
  IN  /\ noKeys(newErrors) => Len(waiting) < MaxWaiting
      /\ errors' = newErrors
      /\ IF noKeys(newErrors)
         THEN /\ isSubmitting' = TRUE
              /\ waiting' = Append(waiting, formData)
         ELSE UNCHANGED <<isSubmitting, waiting>>
      /\ op' = [name |-> "handleSubmit", formData |-> formData]
      /\ prev' = tasks
      /\ UNCHANGED <<tasks, now, envVars, formData, storeVars, uiVars>>

\* handleSubmit reading the form state after its await instead of the
\* formData its closure captured
SubmitResume_currentForm ==
  /\ waiting # <<>>
  /\ Len(tasks) < MaxTasks
  /\ LET taskData == submittedDraft(formData)
     IN  \E r \in 0 .. RandLevels :
           /\ tasks' = addTask(tasks, taskData, now, r)
           /\ op' = [name |-> "addTask", taskData |-> taskData]
  /\ formData' = EmptyForm
  /\ isSubmitting' = FALSE
  /\ waiting' = Tail(waiting)
  /\ prev' = tasks
  /\ localStorage' = write(localStorage, quotaExceeded, tasks')
  /\ UNCHANGED <<now, envVars, errors, quotaExceeded, uiVars>>

\* handleSubmit after its await: addTask, form reset, isSubmitting cleared.
\* addTask has no throwing path on a string title, so the catch is not taken.
SubmitResume ==
  /\ waiting # <<>>
  /\ Len(tasks) < MaxTasks
  /\ LET taskData == submittedDraft(Head(waiting))
     IN  \E r \in 0 .. RandLevels :
           /\ tasks' = addTask(tasks, taskData, now, r)
           /\ op' = [name |-> "addTask", taskData |-> taskData]
  /\ formData' = EmptyForm
  /\ isSubmitting' = FALSE
  /\ waiting' = Tail(waiting)
  /\ prev' = tasks
  /\ localStorage' = write(localStorage, quotaExceeded, tasks')
  /\ UNCHANGED <<now, envVars, errors, quotaExceeded, uiVars>>

\* handleClear
HandleClear ==
  /\ formData' = EmptyForm
  /\ errors' = NoErrors
  /\ op' = [name |-> "handleClear"]
  /\ prev' = tasks
  /\ UNCHANGED <<tasks, now, envVars, isSubmitting, waiting, storeVars, uiVars>>

NextForm ==
  \/ HandleInputChange
  \/ HandleSubmit
  \/ SubmitResume
  \/ HandleClear
  \/ Tick

SpecForm == Init /\ [][NextForm]_vars

\* ------------------------------------------------------------ derived views
\* getFilteredTasks with the 'pending' case missing: it falls to the default
getFilteredTasks_pendingIsAll(ts, filter) ==
  CASE filter = "completed" -> SelectSeq(ts, LAMBDA task : task.completed)
    [] OTHER -> ts

\* getFilteredTasks with the two predicates exchanged
getFilteredTasks_swapped(ts, filter) ==
  CASE filter = "completed" -> SelectSeq(ts, LAMBDA task : ~ task.completed)
    [] filter = "pending" -> SelectSeq(ts, LAMBDA task : task.completed)
    [] OTHER -> ts

\* switch (filter) { case 'completed': ... case 'pending': ... default: }
getFilteredTasks(ts, filter) ==
  CASE filter = "completed" -> SelectSeq(ts, LAMBDA task : task.completed)
    [] filter = "pending" -> SelectSeq(ts, LAMBDA task : ~ task.completed)
    [] OTHER -> ts

\* the view computed from the stored item instead of the collection in memory
filteredTasks_fromStorage(filter) ==
  getFilteredTasks(read(localStorage, initialTasks), filter)

\* TaskList: filteredTasks = getFilteredTasks(filter)
filteredTasks(filter) == getFilteredTasks(tasks, filter)

\* taskStats counting the pending tasks as completed
taskStats_countsPending(ts) ==
  LET total == Len(ts)
      completed == Len(SelectSeq(ts, LAMBDA task : ~ task.completed))
      pending == total - completed
  IN  [total |-> total, completed |-> completed, pending |-> pending]

\* { total, completed, pending } of the memoized statistics
taskStats(ts) ==
  LET total == Len(ts)
      completed == Len(SelectSeq(ts, LAMBDA task : task.completed))
      pending == total - completed
  IN  [total |-> total, completed |-> completed, pending |-> pending]

\* ------------------------------------------------- the application's UI
\* the wrapped TaskManager is rendered: the wrapper is mounted and its
\* loading flag is down
gateOpen == mounted /\ ~ isLoading

\* what the text controls accept: maxLength on the title and description
inputAllows(field, value) ==
  CASE field = "text" -> Len(value) <= TitleMax
    [] field = "description" -> Len(value) <= DescMax
    [] OTHER -> TRUE

\* the date control's min={getTodayDate()}: the form is not submitted with
\* an earlier date in it
dateInRange(fd, t, z) ==
  IF fd.dueDate = <<>> THEN TRUE
  ELSE fd.dueDate[2] >= getTodayDate(t, z)[2]

\* Object.keys(errors).length > 0
hasKeys(errs) == \E k \in DOMAIN errs : errs[k] # Absent

\* disabled of the submit button without its isSubmitting test
submitDisabled_ignoresSubmitting(fd, errs, submitting) ==
  trim(fd.text) = <<>> \/ hasKeys(errs)

\* disabled of the submit button
submitDisabled(fd, errs, submitting) ==
  trim(fd.text) = <<>> \/ submitting \/ hasKeys(errs)

\* the user edits a control of the form; the controls are disabled while a
\* submission is pending
TypeInForm ==
  /\ gateOpen
  /\ ~ isSubmitting
  /\ HandleInputChange
  /\ inputAllows(op'.field, formData'[op'.field])

\* the user presses the submit button
ClickSubmit ==
  /\ gateOpen
  /\ ~ submitDisabled(formData, errors, isSubmitting)
  /\ dateInRange(formData, now, tz)
  /\ HandleSubmit

\* the user presses Clear
ClickClear ==
  /\ gateOpen
  /\ ~ isSubmitting
  /\ HandleClear

\* the TaskItems that stay mounted keep their isDeleting state
keepMounted(flags, ts) == { id \in flags : \E i \in 1 .. Len(ts) : ts[i].id = id }

\* handleToggle of a displayed TaskItem
HandleToggle ==
  /\ gateOpen
  /\ \E i \in 1 .. Len(tasks) :
       /\ tasks' = toggleTask(tasks, tasks[i].id, now)
       /\ op' = [name |-> "toggleTask", id |-> tasks[i].id]
  /\ prev' = tasks
  /\ localStorage' = write(localStorage, quotaExceeded, tasks')
  /\ UNCHANGED <<now, envVars, formVars, quotaExceeded, uiVars>>

\* handleDelete without the confirm test
HandleDelete_noConfirm ==
  /\ gateOpen
  /\ \E i \in 1 .. Len(tasks), confirmed \in BOOLEAN :
       LET id == tasks[i].id
       IN  /\ id \notin isDeleting
           /\ Len(deleting) < MaxDeleting
           /\ isDeleting' = isDeleting \cup {id}
           /\ deleting' = Append(deleting, id)
           /\ op' = [name |-> "handleDelete", id |-> id,
                     confirmed |-> confirmed]
  /\ prev' = tasks
  /\ UNCHANGED <<tasks, now, envVars, formVars, storeVars, gateVars>>

\* handleDelete up to its await: the confirm prompt, then isDeleting is set
\* and the 300 ms delay starts; the delete button is disabled while isDeleting
HandleDelete ==
  /\ gateOpen
  /\ \E i \in 1 .. Len(tasks), confirmed \in BOOLEAN :
       LET id == tasks[i].id
       IN  /\ id \notin isDeleting
           /\ confirmed => Len(deleting) < MaxDeleting
           /\ isDeleting' = IF confirmed THEN isDeleting \cup {id}
                            ELSE isDeleting
           /\ deleting' = IF confirmed THEN Append(deleting, id) ELSE deleting
           /\ op' = [name |-> "handleDelete", id |-> id,
                     confirmed |-> confirmed]
  /\ prev' = tasks
  /\ UNCHANGED <<tasks, now, envVars, formVars, storeVars, gateVars>>

\* deleteTask filtering the collection of an earlier render instead of the
\* one the updater is handed
DeleteResume_stale ==
  /\ deleting # <<>>
  /\ tasks' = deleteTask(prev, Head(deleting))
  /\ op' = [name |-> "deleteTask", id |-> Head(deleting)]
  /\ deleting' = Tail(deleting)
  /\ isDeleting' = keepMounted(isDeleting, tasks')
  /\ prev' = tasks
  /\ localStorage' = write(localStorage, quotaExceeded, tasks')
  /\ UNCHANGED <<now, envVars, formVars, quotaExceeded, gateVars>>

\* handleDelete after its await: deleteTask(task.id)
DeleteResume ==
  /\ deleting # <<>>
  /\ tasks' = deleteTask(tasks, Head(deleting))
  /\ op' = [name |-> "deleteTask", id |-> Head(deleting)]
  /\ deleting' = Tail(deleting)
  /\ isDeleting' = keepMounted(isDeleting, tasks')
  /\ prev' = tasks
  /\ localStorage' = write(localStorage, quotaExceeded, tasks')
  /\ UNCHANGED <<now, envVars, formVars, quotaExceeded, gateVars>>

\* handleClearCompleted of Filters: only with a completed task and a
\* confirmed prompt
HandleClearCompleted ==
  /\ gateOpen
  /\ taskStats(tasks).completed > 0
  /\ \E confirmed \in BOOLEAN :
       IF confirmed
       THEN /\ tasks' = clearCompleted(tasks)
            /\ op' = [name |-> "clearCompleted"]
            /\ localStorage' = write(localStorage, quotaExceeded, tasks')
       ELSE /\ op' = [name |-> "handleClearCompleted"]
            /\ UNCHANGED <<tasks, localStorage>>
  /\ isDeleting' = keepMounted(isDeleting, tasks')
  /\ prev' = tasks
  /\ UNCHANGED <<now, envVars, formVars, quotaExceeded, deleting, gateVars>>

\* the wrapper's timer fires: setIsLoading(false)
LoaderTimeout ==
  /\ timer
  /\ isLoading' = FALSE
  /\ timer' = FALSE
  /\ op' = [name |-> "loaderTimeout"]
  /\ prev' = tasks
  /\ UNCHANGED <<tasks, now, envVars, formVars, storeVars, itemVars, mounted>>

\* the wrapper unmounts and its effect has no cleanup: the timer stays set
LoaderUnmount_keepsTimer ==
  /\ mounted
  /\ mounted' = FALSE
  /\ op' = [name |-> "unmount"]
  /\ prev' = tasks
  /\ UNCHANGED <<tasks, now, envVars, formVars, storeVars, itemVars, isLoading,
                 timer>>

\* the wrapper unmounts: the effect's cleanup clears the timer
LoaderUnmount ==
  /\ mounted
  /\ mounted' = FALSE
  /\ timer' = FALSE
  /\ op' = [name |-> "unmount"]
  /\ prev' = tasks
  /\ UNCHANGED <<tasks, now, envVars, formVars, storeVars, itemVars, isLoading>>

NextApp ==
  \/ LoaderTimeout
  \/ LoaderUnmount
  \/ TypeInForm
  \/ ClickSubmit
  \/ SubmitResume
  \/ ClickClear
  \/ HandleToggle
  \/ HandleDelete
  \/ DeleteResume
  \/ HandleClearCompleted
  \/ Tick

SpecApp == Init /\ [][NextApp]_vars

\* a timeout that is set does fire: the 300 ms delay of a confirmed delete
\* ends, and so does the loading delay of a wrapper that stays mounted
SpecAppFair ==
  SpecApp /\ WF_vars(DeleteResume) /\ WF_vars(LoaderTimeout)

\* the application in a browser west of UTC
InitWest ==
  /\ tasks = <<>>
  /\ now = 0
  /\ prev = <<>>
  /\ op = [name |-> "init"]
  /\ tz = 0 - MaxTz
  /\ localStorage = NoItem
  /\ quotaExceeded = FALSE
  /\ Mounted

SpecAppWest == InitWest /\ [][NextApp]_vars

\* ------------------------------------------------- vocabulary of the claims
\* after is a subsequence of before: same tasks, same relative order
IsSubsequenceOf(after, before) ==
  \E f \in [1 .. Len(after) -> 1 .. Len(before)] :
    /\ \A k \in 1 .. Len(after) : after[k] = before[f[k]]
    /\ \A k1, k2 \in 1 .. Len(after) : k1 < k2 => f[k1] < f[k2]

\* all is c and p merged by the position their tasks have in all
RECURSIVE IsMergeOf(_, _, _)
IsMergeOf(all, c, p) ==
  IF all = <<>> THEN c = <<>> /\ p = <<>>
  ELSE \/ c # <<>> /\ Head(c) = Head(all) /\ IsMergeOf(Tail(all), Tail(c), p)
       \/ p # <<>> /\ Head(p) = Head(all) /\ IsMergeOf(Tail(all), c, Tail(p))

Range(s) == { s[k] : k \in 1 .. Len(s) }

ValidPriorities == {"low", "medium", "high"}

\* ---------------------------------------------------------------- claims

\* C11: a task's id and createdAt never change after creation: whatever
\* operation runs, a task that stays in the collection keeps the id and the
\* createdAt that addTask gave it.
C11_IdCreatedAtImmutable ==
  /\ op.name \in {"toggleTask", "updateTask", "addTask"} =>
       \A i \in 1 .. Len(prev) :
         /\ i <= Len(tasks)
         /\ tasks[i].id = prev[i].id
         /\ tasks[i].createdAt = prev[i].createdAt
  /\ op.name \in {"deleteTask", "clearCompleted", "tick"} =>
       \A k \in 1 .. Len(tasks) : \E i \in 1 .. Len(prev) :
         /\ tasks[k].id = prev[i].id
         /\ tasks[k].createdAt = prev[i].createdAt

\* C12: in every reachable state every task of the collection has a text
\* that is neither empty nor whitespace-only.
C12_TextNeverBlank ==
  \A i \in 1 .. Len(tasks) : ~ Blank(tasks[i].text)

\* C13: in every reachable state every task's priority is one of low,
\* medium, high; addTask stores medium for an absent or invalid priority.
C13_PriorityEnumerated ==
  \A i \in 1 .. Len(tasks) : tasks[i].priority \in ValidPriorities

\* C14: no operation reorders the collection: tasks present before and
\* after an operation keep their relative order, and the order of the
\* collection is the order in which its tasks were created.
C14_InsertionOrder ==
  /\ op.name \in {"toggleTask", "updateTask"} =>
       /\ Len(tasks) = Len(prev)
       /\ \A i \in 1 .. Len(prev) :
            /\ tasks[i].createdAt = prev[i].createdAt
            /\ prev[i].id # op.id => tasks[i] = prev[i]
  /\ op.name = "addTask" =>
       /\ Len(tasks) = Len(prev) + 1
       /\ SubSeq(tasks, 1, Len(prev)) = prev
  /\ op.name \in {"deleteTask", "clearCompleted"} =>
       IsSubsequenceOf(tasks, prev)
  /\ \A i, j \in 1 .. Len(tasks) :
       i < j => tasks[i].createdAt[2] <= tasks[j].createdAt[2]

C14_Witness ==
  /\ op.name \in {"deleteTask", "clearCompleted"}
  /\ Len(prev) = 3
  /\ Len(tasks) = 2
  /\ tasks[1] # tasks[2]
  /\ tasks = <<prev[1], prev[3]>>

\* C15: the completed view and the pending view are disjoint, every task of
\* the collection is in exactly one of them, and merging the two by
\* collection position gives back the all view in its order.
C15_ViewsPartition ==
  LET c == getFilteredTasks(tasks, "completed")
      p == getFilteredTasks(tasks, "pending")
      a == getFilteredTasks(tasks, "all")
  IN  /\ Range(c) \cap Range(p) = {}
      /\ \A i \in 1 .. Len(tasks) :
           (tasks[i] \in Range(c)) # (tasks[i] \in Range(p))
      /\ Len(c) + Len(p) = Len(a)
      /\ IsMergeOf(a, c, p)

C15_Witness ==
  /\ Len(tasks) = 2
  /\ tasks[1].completed
  /\ ~ tasks[2].completed
  /\ getFilteredTasks(tasks, "completed") = <<tasks[1]>>
  /\ getFilteredTasks(tasks, "pending") = <<tasks[2]>>

\* C16: the all view is the collection in unchanged order, the pending view
\* is exactly the tasks with completed false and the completed view exactly
\* those with completed true, each a subsequence in collection order.
C16_FilterViews ==
  /\ filteredTasks("all") = tasks
  /\ IsFilterOf(filteredTasks("pending"), tasks,
                LAMBDA task : task.completed = FALSE)
  /\ IsFilterOf(filteredTasks("completed"), tasks,
                LAMBDA task : task.completed = TRUE)

C16_Witness ==
  /\ Len(tasks) = 2
  /\ ~ tasks[1].completed
  /\ tasks[2].completed
  /\ filteredTasks("pending") = <<tasks[1]>>
  /\ filteredTasks("completed") = <<tasks[2]>>

\* C17: total is the collection length, completed the number of completed
\* tasks, pending their difference, both between 0 and total; one task
\* added to the empty collection and toggled gives total 1, completed 1,
\* pending 0.
C17_Stats ==
  LET st == taskStats(tasks)
  IN  /\ st.total = Len(tasks)
      /\ st.completed
           = Cardinality({ i \in 1 .. Len(tasks) : tasks[i].completed })
      /\ st.pending = st.total - st.completed
      /\ st.total = st.completed + st.pending
      /\ st.completed \in 0 .. st.total
      /\ st.pending \in 0 .. st.total
      /\ (/\ op.name = "toggleTask"
          /\ Len(prev) = 1
          /\ ~ prev[1].completed
          /\ prev[1].id = op.id)
           => st = [total |-> 1, completed |-> 1, pending |-> 0]

C17_Witness ==
  /\ op.name = "toggleTask"
  /\ Len(prev) = 1
  /\ ~ prev[1].completed
  /\ prev[1].id = op.id
  /\ taskStats(tasks) = [total |-> 1, completed |-> 1, pending |-> 0]

\* C18: dueDateStatus is absent without dueDate; otherwise, with difference
\* the ceiling of (dueDate - now) in whole days, it is overdue by
\* |difference| days when difference < 0, due today when it is 0, due in N
\* days when 0 < difference <= 3 and due on a date above 3, 'day' being
\* singular exactly for a count of 1; a task due yesterday (relative to
\* now) is overdue by 1 day at every time of day.
C18_DueDateStatus ==
  op.name = "dueDateStatus" =>
    IF op.task.dueDate = NULL THEN result.status = "null"
    ELSE
      LET due == op.task.dueDate[2]
          span == due * DayLen - now
          difference ==
            CHOOSE n \in (0 - (MaxDay + 4)) .. (MaxDay + 4) :
              n * DayLen >= span /\ (n - 1) * DayLen < span
          unit(n) == IF n = 1 THEN "day" ELSE "days"
      IN  /\ difference < 0 =>
               /\ result.status = "overdue"
               /\ result.label
                    = << "Overdue by", abs(difference), unit(abs(difference)) >>
          /\ difference = 0 => result.status = "today"
          /\ (0 < difference /\ difference <= 3) =>
               /\ result.status = "soon"
               /\ result.label = << "Due in", difference, unit(difference) >>
          /\ difference > 3 => result.status = "later"
          /\ due = LocalDay(now, tz) - 1 =>
               /\ result.status = "overdue"
               /\ result.label = << "Overdue by", 1, "day" >>

\* C20: validation reports 'cannot be in the past' on dueDate exactly when
\* the due date's calendar date is strictly before today's calendar date,
\* whatever the time of day: today is accepted, yesterday is rejected.
C20_PastDueDate ==
  (op.name = "validateForm" /\ op.formData.dueDate # <<>>) =>
    ( (result.dueDate = "Due date cannot be in the past")
        <=> (op.formData.dueDate[2] < getTodayDate(now, tz)[2]) )

\* what C19 says of a draft that validation rejected and of the drafts that
\* reach addTask
RejectedStaysOut ==
  /\ (op.name = "handleSubmit" /\ ~ noKeys(errors)) =>
       /\ tasks = prev
       /\ \A k \in 1 .. Len(waiting) : waiting[k] # op.formData
  /\ \A k \in 1 .. Len(waiting) :
       ~ Blank(waiting[k].text) /\ Len(waiting[k].text) <= TitleMax
  /\ op.name = "addTask" =>
       ~ Blank(op.taskData.text) /\ Len(op.taskData.text) <= TitleMax

C21_ValidatedDraftAdded ==
  /\ [](/\ op.name = "handleSubmit" =>
             /\ errors = validateForm(op.formData, now, tz)
             /\ noKeys(errors) =>
                  (waiting # <<>> /\ waiting[Len(waiting)] = op.formData)
        /\ \A k \in 1 .. Len(waiting) :
             noKeys(validateForm(waiting[k], now, tz)))
  /\ [][/\ op'.name = "addTask" =>
             /\ waiting # <<>>
             /\ op'.taskData = submittedDraft(Head(waiting))
             /\ waiting' = Tail(waiting)
        /\ op'.name # "addTask" =>
             \/ waiting' = waiting
             \/ /\ op'.name = "handleSubmit"
                /\ noKeys(validateForm(formData, now, tz))
                /\ waiting' = Append(waiting, formData)]_vars

C21_Witness ==
  /\ op.name = "addTask"
  /\ errors.text = "Task title is required"
  /\ tasks[Len(tasks)].text = <<"a">>
  /\ Len(tasks) = Len(prev) + 1

\* the repository mutations
MutationNames ==
  {"addTask", "toggleTask", "updateTask", "deleteTask", "clearCompleted"}

\* C22: after every repository mutation whose write succeeds, the item
\* stored under 'tasks' is the text of the whole collection in memory, and
\* a repository initialised from that item holds a collection equal to it
\* field for field.
C22_PersistedEqualsMemory ==
  (op.name \in MutationNames /\ ~ quotaExceeded) =>
    LET reloaded == read(localStorage, initialTasks)
    IN  /\ localStorage = JSON_stringify(tasks)
        /\ Len(reloaded) = Len(tasks)
        /\ \A i \in 1 .. Len(tasks) :
             /\ DOMAIN reloaded[i] = DOMAIN tasks[i]
             /\ \A f \in DOMAIN tasks[i] : reloaded[i][f] = tasks[i][f]

C22_Witness ==
  /\ op.name = "updateTask"
  /\ ~ quotaExceeded
  /\ Len(tasks) = 2
  /\ tasks # prev
  /\ tasks[1].completedAt # NULL
  /\ tasks[2].dueDate # NULL
  /\ read(localStorage, initialTasks) = tasks

\* C23: at startup, when nothing is stored under the key or the stored text
\* cannot be deserialized, the read gives the default, so the repository
\* starts with the empty collection and every operation can be used.
C23_ReadDefaults ==
  (op.name = "init" /\ (localStorage = NoItem \/ ~ wellFormed(localStorage)))
    => /\ tasks = <<>>
       /\ ENABLED AddTask
       /\ ENABLED ToggleTask
       /\ ENABLED UpdateTask
       /\ ENABLED DeleteTask
       /\ ENABLED ClearCompleted
       /\ filteredTasks("all") = <<>>
       /\ taskStats(tasks) = [total |-> 0, completed |-> 0, pending |-> 0]

C23_Witness ==
  /\ op.name = "init"
  /\ localStorage = CorruptText
  /\ tasks = <<>>

\* C24: when the storage write fails during a mutation the failure is
\* caught: the mutation takes effect on the collection in memory, the
\* stored item is left as it was (one attempt, no retry), and the derived
\* views are those of the collection in memory, not of the stale item.
C24_WriteFailureCaught ==
  [][(quotaExceeded /\ op'.name \in MutationNames) =>
       /\ localStorage' = localStorage
       /\ CASE op'.name = "addTask" ->
                 \E r \in 0 .. RandLevels :
                   tasks' = addTask(tasks, op'.taskData, now, r)
            [] op'.name = "toggleTask" ->
                 tasks' = toggleTask(tasks, op'.id, now)
            [] op'.name = "updateTask" ->
                 tasks' = updateTask(tasks, op'.id, op'.updates)
            [] op'.name = "deleteTask" ->
                 tasks' = deleteTask(tasks, op'.id)
            [] OTHER -> tasks' = clearCompleted(tasks)
       /\ filteredTasks("all")' = tasks'
       /\ Len(filteredTasks("pending")') + Len(filteredTasks("completed")')
            = Len(tasks')
       /\ taskStats(tasks').total = Len(tasks')]_vars

C24_Witness ==
  /\ quotaExceeded
  /\ op.name = "addTask"
  /\ Len(tasks) = 2
  /\ localStorage = NoItem
  /\ filteredTasks("all") = tasks
  /\ filteredTasks("all") # read(localStorage, initialTasks)

\* C25: repository mutations are atomic and none is lost: whenever the
\* delay of a create submission or of a delete expires, whatever else is
\* still waiting and whichever expired first, the mutation is applied to
\* the collection as it is then: after the late addTask every task that was
\* there is still there, followed by the created one, and after the late
\* deleteTask no task with the deleted id is left and every other task is.
C25_NoLostUpdate ==
  /\ op.name = "addTask" =>
       /\ Len(tasks) = Len(prev) + 1
       /\ SubSeq(tasks, 1, Len(prev)) = prev
       /\ tasks[Len(tasks)].createdAt = toISOString(now)
  /\ op.name = "deleteTask" =>
       /\ ~ Present(tasks, op.id)
       /\ IsFilterOf(tasks, prev, LAMBDA task : task.id # op.id)
  /\ op.name \in {"toggleTask", "clearCompleted"} =>
       IsSubsequenceOf([ i \in 1 .. Len(tasks) |-> tasks[i].createdAt ],
                       [ i \in 1 .. Len(prev) |-> prev[i].createdAt ])

C25_Witness ==
  /\ op.name = "addTask"
  /\ Len(tasks) = 2
  /\ deleting # <<>>
  /\ tasks[1].id = Head(deleting)
  /\ tasks[2].id # Head(deleting)

\* C26: when the task of a confirmed, still waiting delete has left the
\* collection before the delay expires, the late deleteTask call changes
\* nothing: the collection and the stored item stay as they are.
C26_LateDeleteNoOp ==
  [][(/\ deleting # <<>>
      /\ ~ Present(tasks, Head(deleting))
      /\ op'.name = "deleteTask")
       => /\ op'.id = Head(deleting)
          /\ tasks' = tasks
          /\ read(localStorage', initialTasks) = tasks]_vars

C26_Witness ==
  /\ op.name = "deleteTask"
  /\ ~ Present(prev, op.id)
  /\ Len(prev) >= 1
  /\ tasks = prev

\* C27: a task is removed through the delete control only after the prompt
\* was confirmed: a declined prompt leaves the collection, the deleting
\* flags and the waiting deletes as they were; a confirmed one marks the
\* item deleting and starts the delay, and deleteTask for that id is
\* eventually called; every deleteTask call is the end of such a delay.
C27_DeleteAfterConfirm ==
  /\ [][/\ op'.name = "handleDelete" =>
             /\ tasks' = tasks
             /\ IF op'.confirmed
                THEN /\ isDeleting' = isDeleting \cup {op'.id}
                     /\ deleting' = Append(deleting, op'.id)
                ELSE isDeleting' = isDeleting /\ deleting' = deleting
        /\ op'.name = "deleteTask" =>
             /\ deleting # <<>>
             /\ op'.id = Head(deleting)
        /\ op'.name \notin {"handleDelete", "deleteTask"} =>
             deleting' = deleting]_vars
  /\ \A id \in IdSpace :
       (op.name = "handleDelete" /\ op.confirmed /\ op.id = id)
         ~> (op.name = "deleteTask" /\ op.id = id)

C27_Witness ==
  /\ op.name = "deleteTask"
  /\ Len(prev) = 2
  /\ Len(tasks) = 1
  /\ prev[1].id = op.id
  /\ tasks[1] = prev[2]

\* C28: editing a field that has a validation error clears that field's
\* error, and once the title is not blank, no submission is pending and no
\* field holds an error message, the submit control is enabled, so that
\* after a failed validation the draft can be corrected and submitted
\* without clearing the form first.
C28_SubmitReenabled ==
  /\ op.name = "handleInputChange" => errors[op.field] \in {Absent, ""}
  /\ (/\ gateOpen
      /\ ~ Blank(formData.text)
      /\ ~ isSubmitting
      /\ \A k \in DOMAIN errors : errors[k] \in {Absent, ""})
       => ~ submitDisabled(formData, errors, isSubmitting)

C30_LoadingGate ==
  /\ [](op.name = "init" => (isLoading /\ timer /\ mounted))
  /\ [](~ mounted => ~ timer)
  /\ [](isLoading =>
          tasks = <<>> /\ waiting = <<>> /\ deleting = <<>> /\ ~ isSubmitting)
  /\ [][/\ isLoading' # isLoading =>
             /\ isLoading
             /\ mounted
             /\ timer
             /\ op'.name = "loaderTimeout"
        /\ isLoading =>
             /\ tasks' = tasks
             /\ localStorage' = localStorage
             /\ op'.name \notin MutationNames
        /\ ~ mounted => ~ mounted']_vars
  /\ (mounted /\ isLoading) ~> (~ isLoading \/ ~ mounted)

C30_Witness ==
  /\ op.name = "unmount"
  /\ ~ mounted
  /\ isLoading
  /\ ~ timer

====
